---- MODULE Spec2Model ----
(***************************************************************************)
(* Model of the Hyper3D Rodin command line client:                         *)
(*   scripts/generate_3d_model.py  (main, download_model)                  *)
(*   scripts/api_client.py         (Hyper3DAPIClient)                      *)
(*   scripts/image_utils.py        (ImageUtils.validate_image)             *)
(* One action per blocking step of main: the credential dialogue, the      *)
(* image validation loop, each network call and each sleep.  An exception  *)
(* raised in a step runs main's except handler in the same step.           *)
(* A variable holds a value while the code can still read it: the locals   *)
(* of generate_3d_model are cleared when it returns, a poll's response     *)
(* when its iteration ends.  A raised exception keeps the frame it left.   *)
(***************************************************************************)
EXTENDS Integers, Sequences, FiniteSets, TLC

\* ---------------------------------------------------------------- bounds
MaxRetriesBound == 3
MaxJobs == 2
MaxImages == 6
MaxFiles == 3

\* ------------------------------------------------------- python values
None == "None"
Unset == "unset"

Truthy(x) == x # None /\ x # ""

\* ------------------------------------------------------ image_utils.py
MAX_FILE_SIZE == 16777216
MIN_RESOLUTION == 512
MAX_RESOLUTION == 4096

SUPPORTED_FORMATS == {".jpg", ".jpeg", ".png", ".webp"}

Lower(ext) ==
    CASE ext = ".JPG" -> ".jpg"
      [] ext = ".PNG" -> ".png"
      [] ext = ".WebP" -> ".webp"
      [] ext = ".BMP" -> ".bmp"
      [] OTHER -> ext

\* the minimum resolution itself refused
validate_image_exclusive(img) ==
    IF ~img.exists THEN "Image file does not exist"
    ELSE IF img.size > MAX_FILE_SIZE THEN "Image file size exceeds limit"
    ELSE IF Lower(img.ext) \notin SUPPORTED_FORMATS THEN "Unsupported image format"
    ELSE IF ~img.readable THEN "Failed to validate image: cannot identify image file"
    ELSE IF img.width <= MIN_RESOLUTION \/ img.height <= MIN_RESOLUTION
         THEN "Failed to validate image: Image resolution is too low"
    ELSE IF img.width > MAX_RESOLUTION \/ img.height > MAX_RESOLUTION
         THEN "Failed to validate image: Image resolution is too high"
    ELSE "ok"

\* ImageUtils.validate_image: the message of the exception raised, or "ok"
validate_image(img) ==
    IF ~img.exists THEN "Image file does not exist"
    ELSE IF img.size > MAX_FILE_SIZE THEN "Image file size exceeds limit"
    ELSE IF Lower(img.ext) \notin SUPPORTED_FORMATS THEN "Unsupported image format"
    ELSE IF ~img.readable THEN "Failed to validate image: cannot identify image file"
    ELSE IF img.width < MIN_RESOLUTION \/ img.height < MIN_RESOLUTION
         THEN "Failed to validate image: Image resolution is too low"
    ELSE IF img.width > MAX_RESOLUTION \/ img.height > MAX_RESOLUTION
         THEN "Failed to validate image: Image resolution is too high"
    ELSE "ok"

Img(e, s, x, r, w, h) ==
    [exists |-> e, size |-> s, ext |-> x, readable |-> r, width |-> w, height |-> h]

\* the image files the command line may name
ImagePool ==
    { Img(TRUE, 1000, ".jpg", TRUE, 600, 600),
      Img(TRUE, 1000, ".png", TRUE, 400, 400),
      Img(TRUE, 1000, ".bmp", TRUE, 600, 600) }

RECURSIVE SeqsUpTo(_, _)
SeqsUpTo(S, n) ==
    IF n = 0 THEN { <<>> }
    ELSE LET shorter == SeqsUpTo(S, n - 1)
         IN  shorter \cup { Append(s, x) : s \in { t \in shorter : Len(t) = n - 1 }, x \in S }

\* --image takes one or more paths; <<>> stands for a run started with --prompt
ImageArgs == SeqsUpTo(ImagePool, MaxImages)

\* single files of every kind validate_image tells apart
ProbeExts == { ".jpg", ".jpeg", ".png", ".webp", ".JPG", ".PNG", ".WebP", ".bmp", ".BMP", "" }
ProbeDims == { 400, 511, 512, 600, 4096, 4097, 5000 }
ProbeImages ==
    { Img(FALSE, 0, x, FALSE, 0, 0) : x \in ProbeExts }
    \cup
    { Img(TRUE, s, x, FALSE, 0, 0) : s \in { MAX_FILE_SIZE, MAX_FILE_SIZE + 1 }, x \in ProbeExts }
    \cup
    { Img(TRUE, s, x, TRUE, w, h) :
        s \in { MAX_FILE_SIZE, MAX_FILE_SIZE + 1 }, x \in ProbeExts,
        w \in ProbeDims, h \in ProbeDims }

ProbeArgs == { << i >> : i \in ProbeImages }

\* ------------------------------------------------------ service replies
\* reply of the submission endpoint, as submit_generation_task returns it
SubmitResponses ==
    { [kind |-> "transport_error", error |-> None, uuid |-> None,
       has_jobs |-> FALSE, subscription_key |-> None] }
    \cup
    { [kind |-> "json", error |-> e, uuid |-> u, has_jobs |-> hj, subscription_key |-> k] :
        e \in { None, "quota exceeded" }, u \in { None, "uuid1" },
        hj \in BOOLEAN, k \in { None, "", "sk1" } }

UnsetSubmit ==
    [kind |-> Unset, error |-> None, uuid |-> None, has_jobs |-> FALSE, subscription_key |-> None]

JobStatuses == { "Done", "Failed", "Waiting", "Generating", "Queued", None }
JobErrors == { None, "mesh error" }
Jobs == [status : JobStatuses, error : JobErrors]

StatusResponses ==
    { [kind |-> "transport_error", error |-> None, jobs |-> <<>>],
      [kind |-> "json", error |-> "bad key", jobs |-> <<>>] }
    \cup
    { [kind |-> "json", error |-> None, jobs |-> j] : j \in SeqsUpTo(Jobs, MaxJobs) }

UnsetStatus == [kind |-> Unset, error |-> None, jobs |-> <<>>]

GoodUrl == "http://cdn/model.glb?sig=1"
BadUrl == "http://unreachable/base.glb"
FileInfos == [name : { None, "model.glb" }, url : { None, GoodUrl, BadUrl }]

DownloadResponses ==
    { [kind |-> "transport_error", error |-> None, list |-> <<>>],
      [kind |-> "json", error |-> "not ready", list |-> <<>>] }
    \cup
    { [kind |-> "json", error |-> None, list |-> l] : l \in SeqsUpTo(FileInfos, MaxFiles) }

UnsetDownload == [kind |-> Unset, error |-> None, list |-> <<>>]

VARIABLES
    pc,                 \* position of main
    cred,               \* main: args.api_key, HYPER3D_API_KEY and the two answers typed
    api_key,            \* Hyper3DAPIClient.api_key
    args_image,         \* main: args.image (<<>> when --prompt was given)
    input_images,       \* main: input_images (<<>> when --prompt was given)
    prompt,             \* main: args.prompt
    max_retries,        \* args.max_retries
    poll_interval,      \* args.poll_interval
    slept,              \* the lengths of the sleeps made so far, in order
    output,             \* args.output
    submit_result,      \* generate_3d_model: submit_result
    task_uuid,          \* generate_3d_model / main: task_uuid
    subscription_key,   \* generate_3d_model: subscription_key
    attempt,            \* generate_3d_model: loop variable
    status_result,      \* generate_3d_model: status_result of the current iteration
    printed,            \* the progress line printed for the current iteration
    download_result,    \* main: result
    file_list,          \* main: file_list
    file_idx,           \* main: position of the download loop in file_list
    dir_exists,         \* whether task_output_dir exists on disk
    results,            \* per attempted manifest entry: "written" or "failed"
    outcome,            \* how the run ended: the exception message or the printed verdict
    detail,             \* the detail a "Task failed" message carries
    exit_code,          \* process exit code
    trace,              \* the external calls and sleeps made so far, in order
    always_generating,  \* every status poll so far reported only Generating jobs
    inst                \* two calls of generate_3d_model on one client: the locals of each

vars ==
    << pc, cred, api_key, args_image, input_images, prompt, max_retries, poll_interval,
       slept, output,
       submit_result, task_uuid, subscription_key, attempt, status_result, printed,
       download_result, file_list, file_idx, dir_exists, results, outcome, detail,
       exit_code, trace, always_generating, inst >>

\* the variables of main and of the call it makes
frame ==
    << pc, cred, api_key, args_image, input_images, prompt, max_retries, poll_interval,
       slept, output,
       submit_result, task_uuid, subscription_key, attempt, status_result, printed,
       download_result, file_list, file_idx, dir_exists, results, outcome, detail,
       exit_code, trace, always_generating >>

Instances == { 1, 2 }

\* the locals of one call of generate_3d_model, with what the call has sent and received
NoCall ==
    [pc |-> "none", max_retries |-> 0, task_uuid |-> Unset, subscription_key |-> Unset,
     attempt |-> 0, outcome |-> "running", sent_key |-> Unset, sent_uuid |-> Unset,
     reply |-> [class |-> Unset, uuid |-> Unset, key |-> Unset], seen |-> <<>>,
     fetched |-> Unset]

UnsetCred == [flag |-> Unset, env |-> Unset, confirm |-> Unset, typed |-> Unset]

Init ==
    /\ pc = "credential"
    /\ cred = UnsetCred
    /\ api_key = Unset
    /\ args_image = <<>>
    /\ input_images = <<>>
    /\ prompt = Unset
    /\ max_retries = 0
    /\ poll_interval = 0
    /\ slept = <<>>
    /\ output = Unset
    /\ submit_result = UnsetSubmit
    /\ task_uuid = Unset
    /\ subscription_key = Unset
    /\ attempt = 0
    /\ status_result = UnsetStatus
    /\ printed = None
    /\ download_result = UnsetDownload
    /\ file_list = <<>>
    /\ file_idx = 0
    /\ dir_exists = FALSE
    /\ results = <<>>
    /\ outcome = "running"
    /\ detail = None
    /\ exit_code = -1
    /\ trace = <<>>
    /\ always_generating = TRUE
    /\ inst = [i \in Instances |-> NoCall]

\* main's handler: except Exception -> print, sys.exit(1)
Fail(msg) ==
    /\ pc' = "done"
    /\ outcome' = msg
    /\ exit_code' = 1

\* main runs off its end: the interpreter exits with 0
Finish(msg) ==
    /\ pc' = "done"
    /\ outcome' = msg
    /\ exit_code' = 0

\* ------------------------------------------------------------ credential
\* the environment consulted before the argument
ClientInitEnvFirst(key, env) == IF Truthy(env) THEN env ELSE key

\* Hyper3DAPIClient.__init__: api_key or os.environ.get("HYPER3D_API_KEY")
ClientInit(key, env) == IF Truthy(key) THEN key ELSE env

FlagKeys == { None, "key-flag" }
EnvKeys == { None, "key-env" }
Answers == { "y", "n" }
Entered == { "", "key-typed" }

KeyRequired == "API key is required"

\* main, lines 78-111: the three-way choice of the API key
ResolveCredential ==
    /\ pc = "credential"
    /\ \E flag \in FlagKeys, env \in EnvKeys, confirm \in Answers, typed \in Entered :
         /\ cred' = [flag |-> flag, env |-> env, confirm |-> confirm, typed |-> typed]
         /\ IF Truthy(flag)
            THEN /\ api_key' = ClientInit(flag, env)
                 /\ pc' = "validate"
                 /\ UNCHANGED << outcome, exit_code >>
            ELSE IF Truthy(env) /\ confirm = "y"
            THEN /\ api_key' = ClientInit(None, env)
                 /\ pc' = "validate"
                 /\ UNCHANGED << outcome, exit_code >>
            ELSE IF Truthy(typed)
            THEN /\ api_key' = ClientInit(typed, env)
                 /\ pc' = "validate"
                 /\ UNCHANGED << outcome, exit_code >>
            ELSE /\ Fail(KeyRequired)
                 /\ UNCHANGED api_key
    /\ UNCHANGED << inst, poll_interval, slept, args_image, input_images, prompt, max_retries, output, submit_result,
                    task_uuid, subscription_key, attempt, status_result, printed,
                    download_result, file_list, file_idx, dir_exists, results, detail,
                    trace, always_generating >>

\* ------------------------------------------------------------ validation
Prompts == { "", "a wooden chair" }

\* only the first path is validated
InvalidFirstOnly(imgs) == { i \in { 1 } : validate_image(imgs[i]) # "ok" }

\* lines 116-117: the images validate_image raises for
Invalid(imgs) == { i \in 1..Len(imgs) : validate_image(imgs[i]) # "ok" }

First(S) == CHOOSE i \in S : \A j \in S : i <= j

\* main, lines 113-124: every image is validated, the first failure raises
ValidateImagesFrom(Args) ==
    /\ pc = "validate"
    /\ \E imgs \in Args, text \in Prompts :
         /\ args_image' = imgs
         /\ IF imgs # <<>> /\ Invalid(imgs) # {}
            THEN /\ Fail(validate_image(imgs[First(Invalid(imgs))]))
                 /\ UNCHANGED << input_images, prompt >>
            ELSE /\ input_images' = imgs
                 /\ prompt' = IF imgs = <<>> THEN text ELSE None
                 /\ pc' = "submit"
                 /\ UNCHANGED << outcome, exit_code >>
    /\ UNCHANGED << inst, poll_interval, slept, cred, api_key, max_retries, output, submit_result, task_uuid,
                    subscription_key, attempt, status_result, printed, download_result,
                    file_list, file_idx, dir_exists, results, detail, trace,
                    always_generating >>

\* main started with --image and any of the image lists of ImageArgs
ValidateImages == ValidateImagesFrom(ImageArgs)

\* main started with --image and one file of ProbeImages
ValidateProbe == ValidateImagesFrom(ProbeArgs)

\* ------------------------------------------------------------ api_client
\* the check of line 210 left out
SubmitHasErrorNever(result) == FALSE

\* line 210: "error" in submit_result
SubmitHasError(result) == result.error # None

\* the check of line 223 left out
StatusHasErrorNever(result) == FALSE

\* line 223: "error" in status_result
StatusHasError(result) == result.error # None

\* submit_result.get("jobs").get("subscription_key"): None has no .get
JobsIsNone(result) == ~result.has_jobs

\* a loop that runs one iteration too many
RangeHasNextInclusive(i, n) == i <= n

\* range(max_retries) yields i
RangeHasNext(i, n) == i < n

\* generate_3d_model, line 218 / 255: the next iteration starts, or the loop is exhausted
LoopStep(i) ==
    IF RangeHasNext(i, max_retries')
    THEN /\ attempt' = i
         /\ pc' = "poll"
         /\ UNCHANGED << outcome, exit_code >>
    ELSE /\ Fail("Task processing timed out")
         /\ UNCHANGED attempt

\* --poll-interval: the default and another length
PollIntervals == { 10, 2 }

\* generate_3d_model, lines 191-218, with submit_generation_task, lines 44-108
Submit ==
    /\ pc = "submit"
    /\ \E r \in SubmitResponses, n \in 0..MaxRetriesBound, p \in PollIntervals :
         /\ max_retries' = n
         /\ poll_interval' = p
         /\ IF ~Truthy(api_key)
            THEN /\ Fail(KeyRequired)
                 /\ UNCHANGED << trace, submit_result, task_uuid, subscription_key, attempt,
                                 input_images, prompt, args_image, cred >>
            ELSE /\ trace' = Append(trace, "submit")
                 /\ IF r.kind = "transport_error"
                    THEN /\ Fail("API request failed")
                         /\ submit_result' = r
                         /\ UNCHANGED << task_uuid, subscription_key, attempt,
                                         input_images, prompt, args_image, cred >>
                    ELSE IF SubmitHasError(r)
                    THEN /\ Fail("Task submission failed")
                         /\ submit_result' = r
                         /\ UNCHANGED << task_uuid, subscription_key, attempt,
                                         input_images, prompt, args_image, cred >>
                    ELSE IF JobsIsNone(r)
                    THEN /\ Fail("AttributeError: 'NoneType' object has no attribute 'get'")
                         /\ submit_result' = r
                         /\ task_uuid' = r.uuid
                         /\ UNCHANGED << subscription_key, attempt, input_images, prompt,
                                         args_image, cred >>
                    ELSE /\ task_uuid' = r.uuid
                         /\ subscription_key' = r.subscription_key
                         /\ submit_result' = UnsetSubmit
                         /\ input_images' = <<>>
                         /\ prompt' = Unset
                         /\ args_image' = <<>>
                         /\ cred' = UnsetCred
                         /\ LoopStep(0)
    /\ UNCHANGED << inst, slept, api_key, output, status_result, printed, download_result, file_list,
                    file_idx, dir_exists, results, detail, always_generating >>

\* the empty-list check left out
NoJobsNever(jobs) == FALSE

\* jobs = status_result.get("jobs", []); not jobs
NoJobs(jobs) == jobs = <<>>

\* lines 230-237: status.append(job.get("status"))
StatusList(jobs) == [i \in 1..Len(jobs) |-> jobs[i].status]

\* any() where the code has all()
AllDoneAny(status) == \E i \in 1..Len(status) : status[i] = "Done"

\* all(s == "Done" for s in status)
AllDone(status) == \A i \in 1..Len(status) : status[i] = "Done"

\* only the first job looked at
AnyFailedFirstJob(status) == status[1] = "Failed"

\* a status outside the known ones taken for a failure
AnyFailedOrUnknown(status) ==
    \E i \in 1..Len(status) : status[i] \notin { "Done", "Waiting", "Generating" }

\* any(s == "Failed" for s in status)
AnyFailed(status) == \E i \in 1..Len(status) : status[i] = "Failed"

\* job.get('error', 'Unknown error'), job being the loop variable after the loop
FailedDetail(jobs) ==
    LET job == jobs[Len(jobs)]
    IN  IF job.error = None THEN "Unknown error" ELSE job.error

\* Generating looked at before Waiting
ProgressGeneratingFirst(status) ==
    IF \E i \in 1..Len(status) : status[i] = "Generating" THEN "Task is being processed..."
    ELSE IF \E i \in 1..Len(status) : status[i] = "Waiting" THEN "Task is waiting in queue..."
    ELSE None

\* lines 247-250: the line printed when the jobs are neither all Done nor any Failed
Progress(status) ==
    IF \E i \in 1..Len(status) : status[i] = "Waiting" THEN "Task is waiting in queue..."
    ELSE IF \E i \in 1..Len(status) : status[i] = "Generating" THEN "Task is being processed..."
    ELSE None

OnlyGenerating(r) ==
    /\ r.kind = "json"
    /\ r.error = None
    /\ r.jobs # <<>>
    /\ \A i \in 1..Len(r.jobs) : r.jobs[i].status = "Generating"

\* generate_3d_model, lines 219-250, with check_task_status, lines 120-134
CheckStatus ==
    /\ pc = "poll"
    /\ \E r \in StatusResponses :
         /\ status_result' = r
         /\ trace' = Append(trace, "poll")
         /\ always_generating' = (always_generating /\ OnlyGenerating(r))
         /\ IF r.kind = "transport_error" \/ StatusHasError(r)
            THEN /\ Fail("Status check failed")
                 /\ UNCHANGED << detail, printed >>
            ELSE IF NoJobs(r.jobs)
            THEN /\ Fail("No jobs found in status response")
                 /\ UNCHANGED << detail, printed >>
            ELSE IF AllDone(StatusList(r.jobs))
            THEN /\ pc' = "manifest"
                 /\ UNCHANGED << outcome, exit_code, detail, printed >>
            ELSE IF AnyFailed(StatusList(r.jobs))
            THEN /\ Fail("Task failed")
                 /\ detail' = FailedDetail(r.jobs)
                 /\ UNCHANGED printed
            ELSE /\ pc' = "sleep"
                 /\ printed' = Progress(StatusList(r.jobs))
                 /\ UNCHANGED << outcome, exit_code, detail >>
    /\ UNCHANGED << inst, poll_interval, slept, cred, api_key, args_image, input_images, prompt, max_retries, output,
                    submit_result, task_uuid, subscription_key, attempt, download_result,
                    file_list, file_idx, dir_exists, results >>

\* a sleep that grows with the attempts made
SleepLengthBackoff(interval, i) == interval * (i + 1)

\* line 253: time.sleep(poll_interval), whatever the attempt
SleepLength(interval, i) == interval

\* generate_3d_model, lines 252-255: time.sleep(poll_interval), then the loop header
Sleep ==
    /\ pc = "sleep"
    /\ trace' = Append(trace, "sleep")
    /\ slept' = Append(slept, SleepLength(poll_interval, attempt))
    /\ status_result' = UnsetStatus
    /\ printed' = None
    /\ max_retries' = max_retries
    /\ LoopStep(attempt + 1)
    /\ UNCHANGED << inst, poll_interval, cred, api_key, args_image, input_images, prompt, output, submit_result,
                    task_uuid, subscription_key, download_result, file_list, file_idx,
                    dir_exists, results, detail, always_generating >>

\* ------------------------------------------------------------ the result
Outputs == { None, "models" }

\* models downloaded although no --output was given
OutputGivenAlways(out) == TRUE

\* main, line 171: if args.output
OutputGiven(out) == Truthy(out)

\* main, line 156: "error" in result
ResultHasError(result) == result.error # None

\* generate_3d_model, lines 241-244, with download_results, lines 146-160, and
\* main, lines 155-178, up to the first call of download_model
DownloadResults ==
    /\ pc = "manifest"
    /\ \E r \in DownloadResponses, out \in Outputs :
         /\ trace' = Append(trace, "manifest")
         /\ output' = out
         /\ IF r.kind = "transport_error"
            THEN /\ Fail("Download request failed")
                 /\ UNCHANGED << download_result, file_list, file_idx, api_key, max_retries,
                                 poll_interval,
                                 subscription_key, attempt, status_result >>
            ELSE /\ download_result' = r
                 /\ api_key' = Unset
                 /\ max_retries' = 0
                 /\ poll_interval' = 0
                 /\ subscription_key' = Unset
                 /\ attempt' = 0
                 /\ status_result' = UnsetStatus
                 /\ IF ResultHasError(r)
                    THEN /\ Finish("API call failed")
                         /\ UNCHANGED << file_list, file_idx >>
                    ELSE /\ file_list' = r.list
                         /\ IF r.list = <<>>
                            THEN /\ Finish("No files found in download list")
                                 /\ UNCHANGED file_idx
                            ELSE IF ~OutputGiven(out)
                            THEN /\ Finish("3D model generation successful")
                                 /\ UNCHANGED file_idx
                            ELSE IF task_uuid = None
                            THEN /\ Fail("TypeError")
                                 /\ UNCHANGED file_idx
                            ELSE /\ pc' = "download"
                                 /\ file_idx' = 1
                                 /\ UNCHANGED << outcome, exit_code >>
    /\ UNCHANGED << inst, slept, cred, args_image, input_images, prompt, submit_result, task_uuid,
                    printed, dir_exists, results, detail, always_generating >>

\* requests.get(model_url) answers and raise_for_status passes
Reachable(url) == url = GoodUrl

\* download_model, lines 184-216, called from main's loop, lines 175-176
DownloadModel ==
    /\ pc = "download"
    /\ LET info == file_list[file_idx]
       IN  \E makedirs_ok \in BOOLEAN, get_ok \in BOOLEAN, write_ok \in BOOLEAN :
             /\ dir_exists => makedirs_ok
             /\ IF ~makedirs_ok
                THEN /\ Fail("OSError")
                     /\ UNCHANGED << dir_exists, results, trace, file_idx >>
                ELSE IF ~Truthy(info.name) /\ info.url = None
                THEN /\ Fail("AttributeError: 'NoneType' object has no attribute 'split'")
                     /\ dir_exists' = TRUE
                     /\ UNCHANGED << results, trace, file_idx >>
                ELSE /\ dir_exists' = TRUE
                     /\ trace' = Append(trace, "download")
                     /\ results' = Append(results,
                                      IF Reachable(info.url) /\ get_ok /\ write_ok
                                      THEN "written" ELSE "failed")
                     /\ IF file_idx < Len(file_list)
                        THEN /\ file_idx' = file_idx + 1
                             /\ UNCHANGED << pc, outcome, exit_code >>
                        ELSE /\ Finish("3D model generation successful")
                             /\ UNCHANGED file_idx
    /\ UNCHANGED << inst, poll_interval, slept, cred, api_key, args_image, input_images, prompt, max_retries, output,
                    submit_result, task_uuid, subscription_key, attempt, status_result,
                    printed, download_result, file_list, detail, always_generating >>

\* ------------------------------------------------------------ the program
Next ==
    \/ ResolveCredential
    \/ ValidateImages
    \/ Submit
    \/ CheckStatus
    \/ Sleep
    \/ DownloadResults
    \/ DownloadModel

Spec == Init /\ [][Next]_vars

\* main at line 113, the key taken from --api-key
InitImage ==
    /\ pc = "validate"
    /\ cred = [flag |-> "key-flag", env |-> None, confirm |-> "n", typed |-> ""]
    /\ api_key = "key-flag"
    /\ args_image = <<>>
    /\ input_images = <<>>
    /\ prompt = Unset
    /\ max_retries = 0
    /\ poll_interval = 0
    /\ slept = <<>>
    /\ output = Unset
    /\ submit_result = UnsetSubmit
    /\ task_uuid = Unset
    /\ subscription_key = Unset
    /\ attempt = 0
    /\ status_result = UnsetStatus
    /\ printed = None
    /\ download_result = UnsetDownload
    /\ file_list = <<>>
    /\ file_idx = 0
    /\ dir_exists = FALSE
    /\ results = <<>>
    /\ outcome = "running"
    /\ detail = None
    /\ exit_code = -1
    /\ trace = <<>>
    /\ always_generating = TRUE
    /\ inst = [i \in Instances |-> NoCall]

\* the validation of one image file, of every kind
SpecImage == InitImage /\ [][ValidateProbe]_vars

\* ------------------------------------- two calls on one Hyper3DAPIClient
\* the identifiers the service gives the task of each call
TaskIds == << "uuid1", "uuid2" >>
SubKeys == << "sk1", "sk2" >>

\* the submission replies the call i can receive: those of SubmitResponses, about its task
OwnReply(i, r) ==
    [r EXCEPT !.uuid = IF @ = None THEN None ELSE TaskIds[i],
              !.subscription_key = IF @ = "sk1" THEN SubKeys[i] ELSE @]

\* the status replies a call can receive, those that differ in the statuses of the jobs
CallStatusResponses ==
    { r \in StatusResponses :
        \A k \in 1..Len(r.jobs) :
            r.jobs[k].error = None /\ r.jobs[k].status \in { "Done", "Failed", "Generating" } }

\* the manifests a call can receive, those that differ in length
CallDownloadResponses ==
    { r \in DownloadResponses :
        \A k \in 1..Len(r.list) : r.list[k].name = "model.glb" /\ r.list[k].url = GoodUrl }

\* the key read from wherever the other call left it
PolledKeyOfOther(i) == inst[3 - i].subscription_key

\* line 221: check_task_status(subscription_key), a local of the call
PolledKey(i) == inst[i].subscription_key

\* line 243: download_results(task_uuid), a local of the call
FetchedTask(i) == inst[i].task_uuid

\* what kind of reply a status poll received
StatusClass(r) ==
    IF r.kind = "transport_error" \/ r.error # None THEN "error"
    ELSE IF Len(r.jobs) = 0 THEN "empty"
    ELSE IF \A k \in 1..Len(r.jobs) : r.jobs[k].status = "Done" THEN "done"
    ELSE IF \E k \in 1..Len(r.jobs) : r.jobs[k].status = "Failed" THEN "failed"
    ELSE "pending"

\* what kind of reply the submission received
SubmitClass(r) ==
    IF r.kind = "transport_error" THEN "transport"
    ELSE IF r.error # None THEN "error"
    ELSE IF ~r.has_jobs THEN "nojobs"
    ELSE "ok"

Raise(rec, msg) == [rec EXCEPT !.pc = "done", !.outcome = msg]

\* lines 218 / 255, for the call whose locals are rec
LoopStepOf(rec, k) ==
    IF RangeHasNext(k, rec.max_retries)
    THEN [rec EXCEPT !.attempt = k, !.pc = "poll"]
    ELSE Raise(rec, "Task processing timed out")

\* generate_3d_model, lines 191-218, in the call i
SubmitOf(i) ==
    /\ inst[i].pc = "submit"
    /\ \E r0 \in SubmitResponses, n \in 0..MaxRetriesBound :
         LET r == OwnReply(i, r0)
             rec == [inst[i] EXCEPT !.max_retries = n]
             got == [rec EXCEPT !.reply = [class |-> SubmitClass(r), uuid |-> r.uuid,
                                           key |-> r.subscription_key]]
         IN  inst' = [inst EXCEPT ![i] =
                 IF ~Truthy(api_key) THEN Raise(rec, KeyRequired)
                 ELSE IF r.kind = "transport_error" THEN Raise(got, "API request failed")
                 ELSE IF SubmitHasError(r) THEN Raise(got, "Task submission failed")
                 ELSE IF JobsIsNone(r)
                 THEN Raise([got EXCEPT !.task_uuid = r.uuid],
                            "AttributeError: 'NoneType' object has no attribute 'get'")
                 ELSE LoopStepOf([got EXCEPT !.task_uuid = r.uuid,
                                             !.subscription_key = r.subscription_key], 0)]
    /\ UNCHANGED frame

\* generate_3d_model, lines 219-250, in the call i
CheckStatusOf(i) ==
    /\ inst[i].pc = "poll"
    /\ \E r \in CallStatusResponses :
         LET rec == [inst[i] EXCEPT !.sent_key = PolledKey(i),
                                    !.seen = Append(@, StatusClass(r))]
         IN  inst' = [inst EXCEPT ![i] =
                 IF r.kind = "transport_error" \/ StatusHasError(r)
                 THEN Raise(rec, "Status check failed")
                 ELSE IF NoJobs(r.jobs) THEN Raise(rec, "No jobs found in status response")
                 ELSE IF AllDone(StatusList(r.jobs)) THEN [rec EXCEPT !.pc = "manifest"]
                 ELSE IF AnyFailed(StatusList(r.jobs)) THEN Raise(rec, "Task failed")
                 ELSE [rec EXCEPT !.pc = "sleep"]]
    /\ UNCHANGED frame

\* generate_3d_model, lines 252-255, in the call i
SleepOf(i) ==
    /\ inst[i].pc = "sleep"
    /\ inst' = [inst EXCEPT ![i] = LoopStepOf(inst[i], inst[i].attempt + 1)]
    /\ UNCHANGED frame

\* generate_3d_model, lines 241-244, in the call i
DownloadResultsOf(i) ==
    /\ inst[i].pc = "manifest"
    /\ \E r \in CallDownloadResponses :
         LET rec == [inst[i] EXCEPT !.sent_uuid = FetchedTask(i),
                                    !.fetched = IF r.kind = "transport_error"
                                                THEN "transport" ELSE "ok"]
         IN  inst' = [inst EXCEPT ![i] =
                 IF r.kind = "transport_error" THEN Raise(rec, "Download request failed")
                 ELSE Raise(rec, "returned")]
    /\ UNCHANGED frame

\* a host program holds one client, built with a key, and calls it from two threads
InitTwo ==
    /\ pc = "host"
    /\ cred = UnsetCred
    /\ api_key = "key-flag"
    /\ args_image = <<>>
    /\ input_images = <<>>
    /\ prompt = Unset
    /\ max_retries = 0
    /\ poll_interval = 0
    /\ slept = <<>>
    /\ output = Unset
    /\ submit_result = UnsetSubmit
    /\ task_uuid = Unset
    /\ subscription_key = Unset
    /\ attempt = 0
    /\ status_result = UnsetStatus
    /\ printed = None
    /\ download_result = UnsetDownload
    /\ file_list = <<>>
    /\ file_idx = 0
    /\ dir_exists = FALSE
    /\ results = <<>>
    /\ outcome = "running"
    /\ detail = None
    /\ exit_code = -1
    /\ trace = <<>>
    /\ always_generating = TRUE
    /\ inst = [i \in Instances |-> [NoCall EXCEPT !.pc = "submit"]]

NextTwo ==
    \E i \in Instances :
        \/ SubmitOf(i)
        \/ CheckStatusOf(i)
        \/ SleepOf(i)
        \/ DownloadResultsOf(i)

SpecTwo == InitTwo /\ [][NextTwo]_vars

\* ============================================================ properties
Calls(e) == Cardinality({ i \in 1..Len(trace) : trace[i] = e })

LastEvent == IF trace = <<>> THEN "none" ELSE trace[Len(trace)]

\* the response of the poll just made carries a job list
PolledJobs == status_result.kind = "json" /\ status_result.error = None

SomeJob(s) == \E i \in 1..Len(status_result.jobs) : status_result.jobs[i].status = s

EveryJobDone ==
    /\ PolledJobs
    /\ status_result.jobs # <<>>
    /\ \A i \in 1..Len(status_result.jobs) : status_result.jobs[i].status = "Done"

SubmissionErrors == { "API request failed", "Task submission failed" }

\* the run ended with an exception
Failed == pc = "done" /\ exit_code = 1

\* ------------------------------------------------------------------ C1
\* C1: a poll whose job list holds a Failed job ends the run at that poll with the
\* task-failure error, whatever the other jobs report: the poll is the last call made,
\* no sleep and no manifest request follows.
C1_FailedJobFailsAtOnce ==
    (PolledJobs /\ SomeJob("Failed")) =>
        /\ Failed
        /\ outcome = "Task failed"
        /\ LastEvent = "poll"
        /\ Calls("manifest") = 0

C1_Witness ==
    /\ PolledJobs
    /\ Len(status_result.jobs) = 2
    /\ status_result.jobs[1].status = "Done"
    /\ status_result.jobs[2].status = "Failed"
    /\ outcome = "Task failed"

\* ------------------------------------------------------------------ C2
\* errors raised before the manifest request is made
EarlyErrors ==
    SubmissionErrors \cup
    { KeyRequired, "AttributeError: 'NoneType' object has no attribute 'get'",
      "Status check failed", "No jobs found in status response", "Task failed",
      "Task processing timed out", "Image file does not exist",
      "Image file size exceeds limit", "Unsupported image format",
      "Failed to validate image: cannot identify image file",
      "Failed to validate image: Image resolution is too low",
      "Failed to validate image: Image resolution is too high" }

\* generate_3d_model returned (task_uuid, download_result) to main
Returned == download_result.kind = "json"

ManifestAt(i) == trace[i] = "manifest"

C2_State ==
    /\ Calls("manifest") <= 1
    /\ Returned => Calls("manifest") = 1 /\ task_uuid # Unset
    /\ exit_code = 0 => Returned
    /\ (pc = "done" /\ outcome \in EarlyErrors) => Calls("manifest") = 0
    /\ (pc = "done" /\ Calls("manifest") = 1 /\ ~Returned) => outcome = "Download request failed"
    /\ \A i \in 1..Len(trace) : ManifestAt(i) =>
         /\ i > 1 /\ trace[i - 1] = "poll"
         /\ \A j \in (i + 1)..Len(trace) : trace[j] \notin { "poll", "sleep", "submit" }
    /\ (LastEvent = "poll" /\ EveryJobDone) => pc = "manifest"

C2_Step ==
    Calls("manifest")' > Calls("manifest") => (LastEvent = "poll" /\ EveryJobDone)

\* C2 (as amended): the manifest is requested at most once per run, exactly once in a run
\* that returns (task_uuid, manifest) or fails with the download-request error, and never
\* in a run that fails earlier; the request is made only right after a poll in which
\* every job of a non-empty list reported Done, and no poll or sleep follows that poll.
C2_ManifestOnceAfterAllDone == []C2_State /\ [][C2_Step]_vars

C2_Witness == Returned /\ Calls("manifest") = 1 /\ Calls("poll") = 2 /\ pc = "done"

\* C2 as stated: the manifest is requested once in a run that succeeds and never in a
\* run that fails.
C2_Original ==
    pc = "done" => IF exit_code = 0 THEN Calls("manifest") = 1 ELSE Calls("manifest") = 0

\* ------------------------------------------------------------------ C3
\* the poll loop was entered and every poll so far reported only Generating jobs
GeneratingRun ==
    /\ always_generating
    /\ max_retries >= 1
    /\ subscription_key # Unset

\* C3: with max_retries = N >= 1 and a status source that only ever reports Generating,
\* the run never polls more than N times, sleeps after every poll before the next one,
\* never requests the manifest, and ends only by the timeout error after exactly N polls.
C3_GeneratingTimesOut ==
    GeneratingRun =>
        /\ Calls("manifest") = 0
        /\ Calls("poll") <= max_retries
        /\ pc \in { "poll", "sleep", "done" }
        /\ \A i \in 1..(Len(trace) - 1) : trace[i] = "poll" => trace[i + 1] = "sleep"
        /\ \A i \in 2..Len(trace) : trace[i] = "poll" => trace[i - 1] \in { "sleep", "submit" }
        /\ pc = "sleep" => LastEvent = "poll"
        /\ pc = "done" =>
             /\ Failed
             /\ outcome = "Task processing timed out"
             /\ Calls("poll") = max_retries
             /\ Calls("sleep") >= max_retries - 1

C3_Witness ==
    /\ GeneratingRun
    /\ max_retries = 3
    /\ Calls("poll") = 3
    /\ outcome = "Task processing timed out"

\* ------------------------------------------------------------------ C4
\* the submission reply has no error field and no usable subscription key
LacksKey ==
    \/ subscription_key \in { None, "" }
    \/ /\ submit_result.kind = "json"
       /\ submit_result.error = None
       /\ (~submit_result.has_jobs \/ submit_result.subscription_key \in { None, "" })

\* C4: a submission reply without error field and without subscription key ends the run
\* with a submission error before any status poll is made.
C4_MissingKeyIsSubmissionError ==
    LacksKey => (Failed /\ outcome \in SubmissionErrors /\ Calls("poll") = 0)

\* ------------------------------------------------------------------ C5
SubmitRefused ==
    submit_result.kind = "transport_error" \/
    (submit_result.kind = "json" /\ submit_result.error # None)

\* C5: the submission request is made at most once and never repeated; every poll,
\* manifest request or download is preceded by exactly one submission; a submission
\* that fails in transport or carries an error field ends the run with a submission
\* error, the submission being the only call ever made.
C5_SubmitOnceNoRetry ==
    /\ Calls("submit") <= 1
    /\ (pc \in { "poll", "sleep", "manifest", "download" } \/ Len(trace) > 0) =>
         (Calls("submit") = 1 /\ trace[1] = "submit")
    /\ SubmitRefused =>
         (Failed /\ outcome \in SubmissionErrors /\ trace = << "submit" >>)

C5_Witness ==
    /\ submit_result.kind = "json"
    /\ submit_result.error # None
    /\ submit_result.has_jobs
    /\ submit_result.subscription_key = "sk1"
    /\ outcome = "Task submission failed"

\* ------------------------------------------------------------------ C6
\* C6: a poll that reports no jobs ends the run at that poll with the no-jobs error,
\* also when attempts remain: no sleep, poll or manifest request follows.
C6_NoJobsIsFatal ==
    (PolledJobs /\ status_result.jobs = <<>>) =>
        /\ Failed
        /\ outcome = "No jobs found in status response"
        /\ LastEvent = "poll"
        /\ Calls("manifest") = 0

C6_Witness ==
    /\ PolledJobs
    /\ status_result.jobs = <<>>
    /\ pc = "done"
    /\ max_retries = 3
    /\ Calls("poll") = 2

\* ------------------------------------------------------------------ C7
PollRefused ==
    status_result.kind = "transport_error" \/
    (status_result.kind = "json" /\ status_result.error # None)

\* C7: a poll that fails in transport or whose reply carries an error field ends the
\* run at that poll with the status error, however many attempts remain.
C7_StatusErrorIsFatal ==
    PollRefused =>
        /\ Failed
        /\ outcome = "Status check failed"
        /\ LastEvent = "poll"
        /\ Calls("manifest") = 0

C7_Witness ==
    /\ status_result.kind = "json"
    /\ status_result.error # None
    /\ pc = "done"
    /\ max_retries = 3
    /\ Calls("poll") = 1

\* ------------------------------------------------------------------ C8
\* C8: once the download loop has started, the run ends with every manifest entry
\* attempted and without an error exit, whatever fails for single entries.
C8_EveryEntryAttempted ==
    (pc = "done" /\ file_idx > 0) =>
        (Len(results) = Len(file_list) /\ exit_code = 0)

\* ------------------------------------------------------------------ C9
\* C9: a manifest reply with an error field, like a failed manifest request, ends the
\* run with the manifest error; no such reply is returned to main as a result.
C9_ManifestErrorRaises ==
    /\ Returned => download_result.error = None
    /\ (pc = "done" /\ Calls("manifest") = 1 /\ ~Returned) => outcome = "Download request failed"

\* ------------------------------------------------------------------ C10
PipelineSucceeded ==
    outcome \in { "3D model generation successful", "No files found in download list" }

\* C10: the process exits with 0 only when the pipeline succeeded, and with a non-zero
\* code whenever credential resolution, validation, submission, polling or manifest
\* retrieval failed.
C10_ExitCodeTellsFailure ==
    pc = "done" => (exit_code = 0 <=> PipelineSucceeded)

\* ------------------------------------------------------------------ C11
SomeImageInvalid == \E i \in 1..Len(args_image) : validate_image(args_image[i]) # "ok"

\* C11: every supplied image is validated before the submission: a run in which some
\* supplied image fails validation ends with that error and makes no external call at
\* all, and the images handed to the submission are the supplied ones, all valid.
C11_ValidationGatesSubmission ==
    /\ SomeImageInvalid => (Failed /\ trace = <<>> /\ outcome \notin { "running", KeyRequired })
    /\ pc = "submit" => (input_images = args_image /\ ~SomeImageInvalid)
    /\ Len(trace) > 0 => ~SomeImageInvalid

C11_Witness ==
    /\ Len(args_image) = 2
    /\ validate_image(args_image[1]) = "ok"
    /\ validate_image(args_image[2]) = "Unsupported image format"
    /\ outcome = "Unsupported image format"
    /\ trace = <<>>

\* ------------------------------------------------------------------ C12
\* "up to 5 images": the help text of --image and the docstrings of the client
ImageLimit == 5

\* the request main is about to hand to the submission call
RequestOk ==
    /\ input_images # <<>> \/ Truthy(prompt)
    /\ Len(input_images) <= ImageLimit

\* C12: every request that reaches the submission call has an image or a prompt and at
\* most 5 images.
C12_RequestInvariant == [][Calls("submit")' > Calls("submit") => RequestOk]_vars

\* ------------------------------------------------------------------ C13
\* the error details of the jobs that reported Failed in the poll just made
FailedErrors ==
    { status_result.jobs[i].error :
        i \in { j \in 1..Len(status_result.jobs) :
                  /\ status_result.jobs[j].status = "Failed"
                  /\ status_result.jobs[j].error # None } }

\* C13: the task-failure error carries the error detail of a job that reported Failed
\* when such a job has one, and the generic text otherwise; never the detail of a job
\* that did not fail.
C13_DetailOfFailedJob ==
    outcome = "Task failed" =>
        IF FailedErrors # {} THEN detail \in FailedErrors ELSE detail = "Unknown error"

\* ------------------------------------------------------------------ C14
\* the poll just made reported a non-empty list, no Failed job, not all Done, and every
\* job that is not Done has an unrecognised or missing status
UnknownPoll ==
    /\ PolledJobs
    /\ status_result.jobs # <<>>
    /\ ~EveryJobDone
    /\ \A i \in 1..Len(status_result.jobs) :
         status_result.jobs[i].status \notin { "Failed", "Waiting", "Generating" }

C14_State ==
    UnknownPoll =>
        /\ pc = "sleep"
        /\ outcome = "running"
        /\ LastEvent = "poll"
        /\ Calls("poll") = attempt + 1
        /\ Calls("poll") <= max_retries
        /\ Calls("manifest") = 0

C14_Step ==
    UnknownPoll =>
        /\ trace' = Append(trace, "sleep")
        /\ IF attempt + 1 < max_retries
           THEN pc' = "poll" /\ attempt' = attempt + 1 /\ outcome' = "running"
           ELSE pc' = "done" /\ outcome' = "Task processing timed out"

\* C14: a poll whose jobs are neither Failed nor all Done and otherwise carry only
\* unrecognised or missing statuses does not end the run: it counts as one attempt, the
\* run sleeps, then polls again when attempts remain and times out when none does.
C14_UnknownIsNonTerminal == []C14_State /\ [][C14_Step]_vars

C14_Witness ==
    /\ UnknownPoll
    /\ Len(status_result.jobs) = 2
    /\ status_result.jobs[1].status = "Queued"
    /\ status_result.jobs[2].status = None
    /\ pc = "sleep"
    /\ attempt + 1 < max_retries

\* ------------------------------------------------------------------ C15
\* the poll just made reported a non-empty list with no Failed job and not all Done
NonTerminalPoll ==
    /\ PolledJobs
    /\ status_result.jobs # <<>>
    /\ ~SomeJob("Failed")
    /\ ~EveryJobDone

\* C15: after a poll with no Failed job and not all Done the run reports Waiting when
\* some job is Waiting, also next to Generating ones, and Generating exactly when no job
\* is Waiting and some job is Generating; in both cases the run goes on to sleep.
C15_WaitingBeforeGenerating ==
    NonTerminalPoll =>
        /\ pc = "sleep"
        /\ outcome = "running"
        /\ printed = "Task is waiting in queue..." <=> SomeJob("Waiting")
        /\ printed = "Task is being processed..." <=>
             (~SomeJob("Waiting") /\ SomeJob("Generating"))

C15_Witness ==
    /\ NonTerminalPoll
    /\ Len(status_result.jobs) = 2
    /\ status_result.jobs[1].status = "Generating"
    /\ status_result.jobs[2].status = "Waiting"
    /\ printed = "Task is waiting in queue..."

\* ------------------------------------------------------------------ C16
\* the credential dialogue has run and its answers are still at hand
Resolved == cred # UnsetCred

\* flag, else confirmed environment value, else typed value, else nothing
Preferred ==
    IF Truthy(cred.flag) THEN cred.flag
    ELSE IF Truthy(cred.env) /\ cred.confirm = "y" THEN cred.env
    ELSE IF Truthy(cred.typed) THEN cred.typed
    ELSE None

EnvDeclined == ~Truthy(cred.flag) /\ Truthy(cred.env) /\ cred.confirm # "y"

\* C16: the client's key is the flag value when one is given, else the environment value
\* when the user confirms it, else the value typed in, never a declined environment
\* value; when none of these yields a non-empty key the run fails with the missing-key
\* error before any external call.
C16_CredentialPrecedence ==
    Resolved =>
        /\ Preferred # None => (api_key = Preferred /\ outcome # KeyRequired)
        /\ Preferred = None => (Failed /\ outcome = KeyRequired /\ trace = <<>>)
        /\ EnvDeclined => api_key # cred.env
        /\ Len(trace) > 0 => Truthy(api_key)

C16_Witness ==
    /\ cred.flag = None
    /\ cred.env = "key-env"
    /\ cred.confirm = "n"
    /\ cred.typed = "key-typed"
    /\ api_key = "key-typed"
    /\ pc = "submit"

\* ------------------------------------------------------------------ C17
\* one image was supplied and main has validated it
Probed == Len(args_image) = 1 /\ pc \in { "submit", "done" }

Accepted == pc = "submit" /\ input_images = args_image

SixteenMiB == 16 * 1024 * 1024

SupportedExt(x) ==
    x \in { ".jpg", ".jpeg", ".png", ".webp", ".JPG", ".JPEG", ".PNG", ".WEBP", ".WebP" }

InRange(n) == 512 <= n /\ n <= 4096

Acceptable(img) ==
    /\ img.exists
    /\ img.size <= SixteenMiB
    /\ SupportedExt(img.ext)
    /\ InRange(img.width)
    /\ InRange(img.height)

ResolutionErrors ==
    { "Failed to validate image: Image resolution is too low",
      "Failed to validate image: Image resolution is too high" }

\* the file exists, is small enough and opens as an image
Opens(img) == img.exists /\ img.size <= SixteenMiB /\ img.readable

\* C17 (as amended): validate_image accepts a file exactly when it exists, is at most
\* 16 MiB, has a supported extension in any case and a width and height within
\* [512, 4096]; a rejection names the first violated rule in the order existence, size,
\* extension, resolution, so a 400x400 or 5000x5000 image with a supported extension
\* fails with a resolution error and a .bmp file with the format error.
C17_ValidateImage ==
    Probed =>
        LET img == args_image[1]
        IN  /\ Accepted <=> Acceptable(img)
            /\ ~img.exists => outcome = "Image file does not exist"
            /\ (img.exists /\ img.size > SixteenMiB) => outcome = "Image file size exceeds limit"
            /\ (img.exists /\ img.size <= SixteenMiB /\ ~SupportedExt(img.ext)) =>
                 outcome = "Unsupported image format"
            /\ (Opens(img) /\ SupportedExt(img.ext) /\ (img.width < 512 \/ img.height < 512)) =>
                 outcome = "Failed to validate image: Image resolution is too low"
            /\ (Opens(img) /\ SupportedExt(img.ext) /\ img.width >= 512 /\ img.height >= 512
                  /\ (img.width > 4096 \/ img.height > 4096)) =>
                 outcome = "Failed to validate image: Image resolution is too high"

C17_Witness ==
    /\ Probed
    /\ Accepted
    /\ args_image[1].ext = ".JPG"
    /\ args_image[1].width = 512
    /\ args_image[1].height = 4096
    /\ args_image[1].size = SixteenMiB

\* C17 as stated: the same acceptance rule; a .bmp file fails with a format error, a
\* 400x400 image of any format and a 5000x5000 PNG fail with a resolution error.
C17_Original ==
    Probed =>
        LET img == args_image[1]
        IN  /\ Accepted <=> Acceptable(img)
            /\ (Opens(img) /\ img.ext = ".bmp") => outcome = "Unsupported image format"
            /\ (Opens(img) /\ img.width = 400 /\ img.height = 400) =>
                 outcome \in ResolutionErrors
            /\ (Opens(img) /\ img.ext = ".png" /\ img.width = 5000 /\ img.height = 5000) =>
                 outcome \in ResolutionErrors

\* ------------------------------------------------------------------ C18
AllPending(seq) == \A k \in 1..Len(seq) : seq[k] = "pending"

Front(seq) == SubSeq(seq, 1, Len(seq) - 1)

\* what a call running alone makes of its own replies: its position and outcome
Alone(rec) ==
    IF rec.reply.class = Unset THEN << "submit", "running" >>
    ELSE IF rec.reply.class = "transport" THEN << "done", "API request failed" >>
    ELSE IF rec.reply.class = "error" THEN << "done", "Task submission failed" >>
    ELSE IF rec.reply.class = "nojobs"
    THEN << "done", "AttributeError: 'NoneType' object has no attribute 'get'" >>
    ELSE IF rec.seen = <<>>
    THEN IF rec.max_retries = 0 THEN << "done", "Task processing timed out" >>
         ELSE << "poll", "running" >>
    ELSE LET last == rec.seen[Len(rec.seen)]
         IN  IF last = "error" THEN << "done", "Status check failed" >>
             ELSE IF last = "empty" THEN << "done", "No jobs found in status response" >>
             ELSE IF last = "failed" THEN << "done", "Task failed" >>
             ELSE IF last = "done"
             THEN IF rec.fetched = Unset THEN << "manifest", "running" >>
                  ELSE IF rec.fetched = "ok" THEN << "done", "returned" >>
                  ELSE << "done", "Download request failed" >>
             ELSE IF rec.pc = "sleep" THEN << "sleep", "running" >>
             ELSE IF Len(rec.seen) = rec.max_retries
             THEN << "done", "Task processing timed out" >>
             ELSE << "poll", "running" >>

C18_State ==
    \A i \in Instances :
        LET rec == inst[i]
        IN  /\ << rec.pc, rec.outcome >> = Alone(rec)
            /\ Len(rec.seen) <= rec.max_retries
            /\ AllPending(Front(rec.seen))
            /\ rec.pc = "poll" => rec.attempt = Len(rec.seen)
            /\ rec.sent_key = Unset <=> rec.seen = <<>>
            /\ rec.sent_key # Unset =>
                 /\ rec.sent_key = rec.reply.key
                 /\ rec.sent_key \in { None, "", SubKeys[i] }
            /\ rec.sent_uuid = Unset <=> rec.fetched = Unset
            /\ rec.sent_uuid # Unset =>
                 /\ rec.sent_uuid = rec.reply.uuid
                 /\ rec.sent_uuid \in { None, TaskIds[i] }

C18_Step ==
    /\ api_key' = api_key
    /\ \E i \in Instances : \A j \in Instances \ { i } : inst'[j] = inst[j]

\* C18: two calls of generate_3d_model for distinct tasks, interleaved at their network
\* calls and sleeps, do not interfere: each call's position, outcome, poll count and the
\* subscription key and task identifier it sends follow from its own submission reply and
\* its own status replies, every step changes the locals of one call only, and the client
\* both calls share is not written.
C18_NoInterference == []C18_State /\ [][C18_Step]_vars

\* the first call polls with its own key after the second call was given another key
C18_Witness ==
    /\ inst[2].subscription_key = "sk2"
    /\ inst[2].pc = "sleep"
    /\ inst[1].sent_key = "sk1"
    /\ Len(inst[1].seen) = 2
    /\ inst[1].pc = "manifest"

\* ------------------------------------------------------------------ C19
\* generate_3d_model was entered and has returned or raised
Ended == Len(trace) > 0 /\ pc \in { "done", "download" }

\* the outcome classes of a run, each as the code shows it
Success == Returned /\ download_result.error = None
SubmissionError == Failed /\ ~Returned /\ outcome \in SubmissionErrors
StatusError ==
    Failed /\ ~Returned /\ outcome \in { "Status check failed", "No jobs found in status response" }
TaskFailed == Failed /\ ~Returned /\ outcome = "Task failed"
PollTimeout == Failed /\ ~Returned /\ outcome = "Task processing timed out"
ManifestError == Failed /\ ~Returned /\ outcome = "Download request failed"

C19_State ==
    /\ Ended =>
         \/ Success
         \/ SubmissionError
         \/ StatusError
         \/ TaskFailed
         \/ PollTimeout
         \/ ManifestError
    /\ Calls("poll") <= MaxRetriesBound
    /\ Len(trace) <= 2 * MaxRetriesBound + 2 + MaxFiles
    /\ pc = "poll" => (Calls("poll") = attempt /\ attempt < max_retries)
    /\ pc \in { "sleep", "manifest" } => (Calls("poll") = attempt + 1 /\ attempt < max_retries)

C19_Step ==
    /\ Calls("poll")' > Calls("poll") =>
         (Calls("poll")' = attempt + 1 /\ Calls("poll")' <= max_retries)
    /\ (pc = "sleep" /\ pc' = "poll") => attempt' = attempt + 1
    /\ (pc = "submit" /\ Calls("submit")' = 1 /\ max_retries' = 0
          /\ submit_result' = UnsetSubmit) =>
         (PollTimeout' /\ trace' = << "submit" >>)

\* C19: for every max_retries >= 0 and every sequence of replies the run ends, after a
\* bounded number of calls, in exactly one of success, submission error, status error,
\* task failed, poll timeout and manifest error; the polls made never exceed max_retries,
\* attempt grows by one per poll, and with max_retries = 0 an accepted submission is
\* followed by no poll and the poll timeout.
C19_TerminatesInOneOutcome == []C19_State /\ [][C19_Step]_vars

\* ------------------------------------------------------------------ C20
Phase(e) ==
    CASE e = "submit" -> 1
      [] e \in { "poll", "sleep" } -> 2
      [] e = "manifest" -> 3
      [] e = "download" -> 4

\* the manifest main holds came without error field
CleanManifest == download_result.kind = "json" /\ download_result.error = None

C20_State ==
    /\ \A i \in 1..Len(trace) : \A j \in i..Len(trace) : Phase(trace[i]) <= Phase(trace[j])
    /\ Calls("submit") <= 1
    /\ Calls("manifest") <= 1
    /\ Len(trace) > 0 => trace[1] = "submit"
    /\ Calls("poll") > 0 => (trace[2] = "poll" /\ outcome \notin SubmissionErrors)
    /\ \A i \in 1..Len(trace) : ManifestAt(i) => (i > 1 /\ trace[i - 1] = "poll")
    /\ (Calls("download") > 0 \/ pc = "download") =>
         /\ Calls("manifest") = 1
         /\ CleanManifest
         /\ file_list = download_result.list
         /\ output \notin { None, "", Unset }
         /\ Calls("download") = Len(results)
         /\ Len(results) <= Len(download_result.list)

C20_Step ==
    Calls("download")' > Calls("download") =>
        /\ pc = "download"
        /\ file_idx = Calls("download") + 1
        /\ file_idx \in 1..Len(download_result.list)
        /\ Calls("download")' = Calls("download") + 1

\* C20: the calls of a run come in the order submit, status polls, at most one manifest
\* request, asset downloads: no poll before an accepted submission, no manifest request
\* before a poll, and an asset is downloaded only after a manifest without error field
\* was obtained, only for the entries of that manifest, one after the other, and only
\* when --output was given.
C20_PhaseOrder == []C20_State /\ [][C20_Step]_vars

C20_Witness ==
    /\ pc = "done"
    /\ Calls("sleep") = 1
    /\ Calls("poll") = 2
    /\ Calls("download") = 2
    /\ Len(file_list) = 2
    /\ output = "models"

\* ------------------------------------------------------------------ C21
\* the task identifier generate_3d_model holds is absent or empty
LacksTaskId == task_uuid \in { None, "" }

\* C21: a submission reply without task identifier ends the run at the submission: the
\* run makes no poll and no manifest request with an absent or empty task identifier,
\* and returns no (task_uuid, manifest) whose task_uuid is absent.
C21_TaskIdNeverAbsent ==
    /\ LacksTaskId => (Failed /\ trace = << "submit" >>)
    /\ LacksTaskId => Calls("poll") = 0
    /\ LacksTaskId => Calls("manifest") = 0
    /\ LacksTaskId => ~Returned

\* ------------------------------------------------------------------ C22
\* the poll just made ended the run or led to the manifest request
TerminalPoll ==
    \/ status_result.kind = "transport_error"
    \/ status_result.kind = "json" /\ status_result.error # None
    \/ PolledJobs /\ status_result.jobs = <<>>
    \/ EveryJobDone
    \/ PolledJobs /\ SomeJob("Failed")

\* the reply of the poll just made asks for another poll
GoesOn == status_result.kind # Unset /\ ~TerminalPoll

C22_State ==
    /\ Calls("sleep") = Len(slept)
    /\ \A i \in 1..Len(slept) : slept[i] = slept[1] /\ slept[i] \in PollIntervals
    /\ pc \in { "poll", "sleep", "manifest" } =>
         \A i \in 1..Len(slept) : slept[i] = poll_interval
    /\ \A i \in 1..Len(trace) :
         /\ trace[i] = "sleep" => (i > 1 /\ trace[i - 1] = "poll")
         /\ (trace[i] = "poll" /\ i < Len(trace)) => trace[i + 1] \in { "sleep", "manifest" }
    /\ pc = "poll" => Calls("sleep") = Calls("poll")
    /\ pc = "sleep" => (GoesOn /\ LastEvent = "poll" /\ Calls("sleep") = Calls("poll") - 1)
    /\ (LastEvent = "poll" /\ GoesOn) => pc = "sleep"
    /\ (LastEvent = "poll" /\ TerminalPoll) =>
         (pc \in { "manifest", "done" } /\ Calls("sleep") = Calls("poll") - 1)
    /\ Calls("manifest") > 0 => Calls("sleep") = Calls("poll") - 1
    /\ outcome = "Task processing timed out" =>
         (Calls("sleep") = Calls("poll") /\ Calls("poll") = max_retries)

C22_Step ==
    /\ pc = "sleep" =>
         /\ Calls("sleep")' = Calls("sleep") + 1
         /\ slept' = Append(slept, poll_interval)
         /\ poll_interval' = poll_interval
         /\ LastEvent' = "sleep"
    /\ Calls("sleep")' # Calls("sleep") => pc = "sleep"

\* C22: the sleeps of the loop are as many as the polls that returned a non-terminal
\* result, each of the one length poll_interval: every non-terminal poll, the last
\* permitted one before the timeout included, is followed by exactly one sleep (a run
\* that times out after N attempts has slept N times), and no sleep follows a poll that
\* ends the loop (all Done, a Failed job, an empty job list, a status error).
C22_SleepPerNonTerminalPoll == []C22_State /\ [][C22_Step]_vars

C22_Witness ==
    /\ outcome = "Task processing timed out"
    /\ max_retries = 3
    /\ slept = << 2, 2, 2 >>
    /\ Calls("poll") = 3
    /\ LastEvent = "sleep"

====
